---- MODULE Spec2Model ----
(***************************************************************************)
(* Library item service of the API package                                 *)
(* (packages/api/src/services/library_item.ts): the WHERE-clause builder,  *)
(* the search, the single-item mutations and the bulk actions, over one    *)
(* library_item table and the entity_labels join table.                    *)
(***************************************************************************)
EXTENDS Integers, Sequences, FiniteSets, TLC

VARIABLES items, entityLabels, now, pc, call, outcome, published

vars == <<items, entityLabels, now, pc, call, outcome, published>>

(***************************************************************************)
(* Bounds of the model.                                                    *)
(***************************************************************************)
\* Number of library_item ids the store can hold.
NumItems == 2
\* The clock runs from 0 to MaxTime days, DaysPerTick days at a time.
MaxTime == 15
DaysPerTick == 15

(***************************************************************************)
(* Values.                                                                 *)
(***************************************************************************)
\* SQL NULL / a null or undefined Date or number.
NULL == -1
\* An enum, string or object argument that is undefined.
UNSET == "UNSET"
\* A text column that is NULL.
NullText == "<null>"

Users == {"u1", "u2"}
ItemIds == 1..NumItems
LabelIds == {"A", "B"}
Times == {t \in 0..MaxTime : t % DaysPerTick = 0}

\* LibraryItemState
Processing == "PROCESSING"
Succeeded == "SUCCEEDED"
Archived == "ARCHIVED"
Deleted == "DELETED"
LibraryItemState == {Processing, Succeeded, Archived, Deleted}

\* The retention window of the trash listing, in days.
TrashDays == 14
\* The reading progress from which an item counts as read.
ReadPercent == 98
\* The reading progress a bulk mark-as-read sets.
FullPercent == 100
\* new Date(0), the default start of a date filter.
Epoch == 0
\* The default page: from = 0, size = 10.
DefaultFrom == 0
DefaultSize == 10

\* String.prototype.toLowerCase and SQL lower() on the strings of the model.
ToLower(s) ==
    CASE s = "News" -> "news"
      [] s = "Library" -> "library"
      [] s = "Quote" -> "quote"
      [] s = "Bob" -> "bob"
      [] s = "Ann" -> "ann"
      [] s = "ARTICLE" -> "article"
      [] s = "FILE" -> "file"
      [] s = "Article" -> "article"
      [] s = "EN" -> "en"
      [] OTHER -> s

LowerAll(S) == {ToLower(s) : s \in S}

(***************************************************************************)
(* SearchArgs.  An absent string is "", an absent enum UNSET, an absent    *)
(* list <<>>, an absent number or date NULL, an absent boolean FALSE.      *)
(***************************************************************************)
EmptyArgs ==
    [from |-> NULL, size |-> NULL, sort |-> [by |-> UNSET, order |-> UNSET],
     query |-> "",
     inFilter |-> UNSET, readFilter |-> UNSET, typeFilter |-> "",
     labelFilters |-> <<>>, hasFilters |-> <<>>, dateFilters |-> <<>>,
     termFilters |-> <<>>, matchFilters |-> <<>>,
     includePending |-> FALSE, includeDeleted |-> FALSE,
     ids |-> {}, recommendedBy |-> "", noFilters |-> <<>>]

(***************************************************************************)
(* The query builder: its where clauses, each with the parameters the      *)
(* andWhere call binds, in the order of the calls.  A parameter name is a  *)
(* pair whose concatenation is the name in the source.                     *)
(***************************************************************************)
Bind(base, suffix, value) == [name |-> <<base, suffix>>, value |-> value]

Clause(kind, field, binds) == [kind |-> kind, field |-> field, binds |-> binds]

\* `includeLabels_${i}`: the index in decimal.
IndexName(i) == ToString(i)

\* args.query: the where clause.  The block also orders the query by rank,
\* which Precedes reads from the same argument.
QueryClauses(args) ==
    IF args.query # ""
    THEN <<Clause("tsquery", "search_tsv", <<Bind("query", "", args.query)>>)>>
    ELSE <<>>

\* args.typeFilter
TypeClauses(args) ==
    IF args.typeFilter # ""
    THEN <<Clause("typeEquals", "item_type",
                  <<Bind("typeFilter", "", ToLower(args.typeFilter))>>)>>
    ELSE <<>>

\* args.inFilter
InFilterClauses(args) ==
    IF args.inFilter # "ALL"
    THEN CASE args.inFilter = "INBOX" ->
                <<Clause("isNull", "archived_at", <<>>)>>
           [] args.inFilter = "ARCHIVE" ->
                <<Clause("isNotNull", "archived_at", <<>>)>>
           [] args.inFilter = "TRASH" ->
                <<Clause("deletedWithin", "deleted_at", <<>>)>>
           [] args.inFilter = "SUBSCRIPTION" ->
                <<Clause("isNotNull", "subscription", <<>>),
                  Clause("notLibraryLabel", "label_names", <<>>),
                  Clause("isNull", "archived_at", <<>>)>>
           [] args.inFilter = "LIBRARY" ->
                <<Clause("noSubscriptionOrLibraryLabel", "subscription", <<>>),
                  Clause("isNull", "archived_at", <<>>)>>
           [] OTHER -> <<>>
    ELSE <<>>

\* args.readFilter
ReadFilterClauses(args) ==
    IF args.readFilter # "ALL"
    THEN CASE args.readFilter = "READ" ->
                <<Clause("progressAtLeast", "reading_progress_top_percent", <<>>)>>
           [] args.readFilter = "UNREAD" ->
                <<Clause("progressBelow", "reading_progress_top_percent", <<>>)>>
           [] OTHER -> <<>>
    ELSE <<>>

\* args.hasFilters
HasFilterClause(filter) ==
    CASE filter = "HIGHLIGHTS" ->
            <<Clause("arrayNotEmpty", "highlight_annotations", <<>>)>>
      [] filter = "LABELS" ->
            <<Clause("arrayNotEmpty", "label_names", <<>>)>>
      [] OTHER -> <<>>

RECURSIVE HasFiltersFrom(_)
HasFiltersFrom(filters) ==
    IF filters = <<>> THEN <<>>
    ELSE HasFilterClause(Head(filters)) \o HasFiltersFrom(Tail(filters))

HasFilterClauses(args) == HasFiltersFrom(args.hasFilters)

\* args.labelFilters
IsInclude(filter) == filter.type = "INCLUDE"
IsExclude(filter) == filter.type = "EXCLUDE"

RECURSIVE UnionLabels(_)
UnionLabels(filters) ==
    IF filters = <<>> THEN {}
    ELSE Head(filters).labels \cup UnionLabels(Tail(filters))

LabelFilterClauses(args) ==
    LET includeLabels == SelectSeq(args.labelFilters, IsInclude)
        excludeLabels == SelectSeq(args.labelFilters, IsExclude)
    IN  [i \in 1..Len(includeLabels) |->
            Clause("labelsOverlap", "labels",
                   <<Bind("includeLabels_", IndexName(i - 1), includeLabels[i].labels)>>)]
        \o
        (IF Len(excludeLabels) > 0
         THEN <<Clause("labelsDisjoint", "labels",
                       <<Bind("excludeLabels", "", UnionLabels(excludeLabels))>>)>>
         ELSE <<>>)

\* args.dateFilters; now is the new Date() of an open end
DateFilterClauses(args, time) ==
    [i \in 1..Len(args.dateFilters) |->
        LET filter == args.dateFilters[i]
        IN  Clause("between", filter.field,
                   <<Bind(filter.field, "_start",
                          IF filter.startDate = NULL THEN Epoch ELSE filter.startDate),
                     Bind(filter.field, "_end",
                          IF filter.endDate = NULL THEN time ELSE filter.endDate)>>)]

\* args.termFilters
TermFilterClauses(args) ==
    [i \in 1..Len(args.termFilters) |->
        LET filter == args.termFilters[i]
        IN  Clause("termEquals", filter.field,
                   <<Bind("term_", filter.field, ToLower(filter.value))>>)]

\* args.matchFilters
MatchFilterClauses(args) ==
    [i \in 1..Len(args.matchFilters) |->
        LET filter == args.matchFilters[i]
        IN  Clause("tsqueryField", filter.field,
                   <<Bind("match_", filter.field, filter.value)>>)]

\* args.ids
IdsClauses(args) ==
    IF args.ids # {}
    THEN <<Clause("idIn", "id", <<Bind("ids", "", args.ids)>>)>>
    ELSE <<>>

\* args.includePending
PendingClauses(args) ==
    IF ~args.includePending
    THEN <<Clause("stateNot", "state", <<Bind("state", "", Processing)>>)>>
    ELSE <<>>

\* args.includeDeleted
DeletedClauses(args) ==
    IF ~args.includeDeleted /\ args.inFilter # "TRASH"
    THEN <<Clause("stateNot", "state", <<Bind("state", "", Deleted)>>)>>
    ELSE <<>>

\* args.noFilters
NoFilterClauses(args) ==
    [i \in 1..Len(args.noFilters) |->
        Clause("arrayEmpty", args.noFilters[i].field, <<>>)]

\* args.recommendedBy
RecommendedClauses(args) ==
    IF args.recommendedBy # ""
    THEN IF args.recommendedBy = "*"
         THEN <<Clause("arrayNotEqualEmpty", "recommender_names", <<>>)>>
         ELSE <<Clause("recommendedBy", "recommender_names",
                       <<Bind("recommendedBy", "", ToLower(args.recommendedBy))>>)>>
    ELSE <<>>

\* The clauses buildWhereClause adds to the query builder, in order.
buildWhereClause(args, time) ==
    QueryClauses(args) \o TypeClauses(args) \o InFilterClauses(args)
    \o ReadFilterClauses(args) \o HasFilterClauses(args)
    \o LabelFilterClauses(args) \o DateFilterClauses(args, time)
    \o TermFilterClauses(args) \o MatchFilterClauses(args) \o IdsClauses(args)
    \o PendingClauses(args) \o DeletedClauses(args) \o NoFilterClauses(args)
    \o RecommendedClauses(args)

(***************************************************************************)
(* The store's evaluation of a where clause on a row.                      *)
(***************************************************************************)
\* The parameters of the query builder: every andWhere sets its parameters
\* by name, in the order of the calls.
RECURSIVE Parameters(_)
Parameters(clauses) ==
    IF clauses = <<>> THEN <<>>
    ELSE Head(clauses).binds \o Parameters(Tail(clauses))

\* The value a parameter name stands for when the query runs: the last one
\* set under that name.
Lookup(params, name) ==
    LET at == {i \in 1..Len(params) : params[i].name = name}
    IN  params[CHOOSE i \in at : \A j \in at : j <= i].value

\* A column of a row, by its SQL name.
Column(row, col) ==
    CASE col = "saved_at" -> row.savedAt
      [] col = "archived_at" -> row.archivedAt
      [] col = "deleted_at" -> row.deletedAt
      [] col = "read_at" -> row.readAt
      [] col = "subscription" -> row.subscription
      [] col = "label_names" -> row.labelNames
      [] col = "highlight_labels" -> row.highlightLabels
      [] col = "highlight_annotations" -> row.highlightAnnotations
      [] col = "recommender_names" -> row.recommenderNames
      [] col = "author" -> row.author
      [] col = "item_type" -> row.itemType
      [] col = "title" -> row.titleTsv
      [] col = "search_tsv" -> row.searchTsv

IsNullColumn(row, col) ==
    IF col = "subscription" THEN row.subscription = NullText
    ELSE Column(row, col) = NULL

\* lower(array_cat(label_names, highlight_labels)::text)::text[]
LoweredLabels(row) == LowerAll(row.labelNames \cup row.highlightLabels)

\* 'library' ILIKE ANY (label_names)
HasLibraryLabel(row) == \E l \in row.labelNames : ToLower(l) = "library"

\* Whether clause c holds of the row under id, its parameters read in params.
ClauseHolds(c, params, row, id, time) ==
    CASE c.kind = "userIdEquals" ->
            row.userId = Lookup(params, <<"userId", "">>)
      [] c.kind = "tsquery" ->
            Lookup(params, <<"query", "">>) \in row.searchTsv
      [] c.kind = "typeEquals" ->
            ToLower(row.itemType) = Lookup(params, <<"typeFilter", "">>)
      [] c.kind = "isNull" -> IsNullColumn(row, c.field)
      [] c.kind = "isNotNull" -> ~IsNullColumn(row, c.field)
      [] c.kind = "deletedWithin" ->
            row.deletedAt # NULL /\ row.deletedAt >= time - TrashDays
      [] c.kind = "notLibraryLabel" -> ~HasLibraryLabel(row)
      [] c.kind = "noSubscriptionOrLibraryLabel" ->
            row.subscription = NullText \/ HasLibraryLabel(row)
      [] c.kind = "progressAtLeast" ->
            row.readingProgressTopPercent >= ReadPercent
      [] c.kind = "progressBelow" ->
            row.readingProgressTopPercent < ReadPercent
      [] c.kind = "arrayNotEmpty" -> Column(row, c.field) # {}
      [] c.kind = "labelsOverlap" ->
            LoweredLabels(row) \cap Lookup(params, c.binds[1].name) # {}
      [] c.kind = "labelsDisjoint" ->
            LoweredLabels(row) \cap Lookup(params, <<"excludeLabels", "">>) = {}
      [] c.kind = "between" ->
            /\ Column(row, c.field) # NULL
            /\ Lookup(params, <<c.field, "_start">>) <= Column(row, c.field)
            /\ Column(row, c.field) <= Lookup(params, <<c.field, "_end">>)
      [] c.kind = "termEquals" ->
            ToLower(Column(row, c.field)) = Lookup(params, <<"term_", c.field>>)
      [] c.kind = "tsqueryField" ->
            Lookup(params, <<"match_", c.field>>) \in Column(row, c.field)
      [] c.kind = "idIn" -> id \in Lookup(params, <<"ids", "">>)
      [] c.kind = "stateNot" -> row.state # Lookup(params, <<"state", "">>)
      [] c.kind = "arrayEmpty" -> Column(row, c.field) = {}
      [] c.kind = "arrayNotEqualEmpty" -> row.recommenderNames # {}
      [] c.kind = "recommendedBy" ->
            Lookup(params, <<"recommendedBy", "">>) \in LowerAll(row.recommenderNames)

\* The WHERE of the query: the conjunction of its clauses, every one reading
\* the query's parameters.
WhereHolds(clauses, row, id, time) ==
    \A i \in 1..Len(clauses) :
        ClauseHolds(clauses[i], Parameters(clauses), row, id, time)

\* The WHERE as the filters state it: every clause read with the values it
\* was added with.
AsAddedHolds(clauses, row, id, time) ==
    \A i \in 1..Len(clauses) :
        ClauseHolds(clauses[i], clauses[i].binds, row, id, time)

(***************************************************************************)
(* Rows of library_item.  items maps the ids that have a row to the row.   *)
(***************************************************************************)
\* The columns no operation of this service writes, as an ingested page
\* carries them.
Plain ==
    [itemType |-> "ARTICLE", subscription |-> NullText, labelNames |-> {},
     highlightLabels |-> {}, highlightAnnotations |-> {},
     recommenderNames |-> {}, searchTsv |-> {"rust"}, searchRank |-> 1,
     titleTsv |-> {"rust"}, author |-> "Ann", originalUrl |-> "http://a"]

\* The same page under another url, with a text that ranks higher.
Essay ==
    [itemType |-> "ARTICLE", subscription |-> NullText, labelNames |-> {},
     highlightLabels |-> {}, highlightAnnotations |-> {},
     recommenderNames |-> {}, searchTsv |-> {"rust"}, searchRank |-> 2,
     titleTsv |-> {"rust"}, author |-> "Ann", originalUrl |-> "http://b"]

Newsletter ==
    [itemType |-> "Article", subscription |-> "weekly", labelNames |-> {"News"},
     highlightLabels |-> {"Quote"}, highlightAnnotations |-> {"note"},
     recommenderNames |-> {"Bob"}, searchTsv |-> {"go"}, searchRank |-> 1,
     titleTsv |-> {"go"}, author |-> "Bob", originalUrl |-> "http://b"]

Contents == {Plain, Essay, Newsletter}

Urls == {content.originalUrl : content \in Contents}

\* A library item as saved: the content columns and the columns the
\* mutations write.
Item(userId, state, content, savedAt, archivedAt, deletedAt, readAt, percent) ==
    [userId |-> userId, state |-> state, savedAt |-> savedAt,
     archivedAt |-> archivedAt, deletedAt |-> deletedAt, readAt |-> readAt,
     readingProgressTopPercent |-> percent,
     readingProgressBottomPercent |-> percent,
     itemType |-> content.itemType, subscription |-> content.subscription,
     labelNames |-> content.labelNames,
     highlightLabels |-> content.highlightLabels,
     highlightAnnotations |-> content.highlightAnnotations,
     recommenderNames |-> content.recommenderNames,
     searchTsv |-> content.searchTsv, searchRank |-> content.searchRank,
     titleTsv |-> content.titleTsv, author |-> content.author,
     originalUrl |-> content.originalUrl]

\* A store that shows a transaction every row.
VisibleToAnyone(uid, row) == TRUE

\* The rows the transaction of a user can see: authTrx sets the user of the
\* transaction, and the store shows it that user's rows only.
VisibleTo(uid, row) == row.userId = uid

\* The user of an authTrx transaction: the one passed, else the session's.
TrxUser(uid, session) == IF uid = UNSET THEN session ELSE uid

VisibleIds(table, uid) == {id \in DOMAIN table : VisibleTo(uid, table[id])}

(***************************************************************************)
(* searchLibraryItems                                                      *)
(***************************************************************************)
\* The rows of the table the query of a transaction of uid selects.
GetMany(clauses, table, uid, time) ==
    {id \in VisibleIds(table, uid) : WhereHolds(clauses, table[id], id, time)}

\* ts_rank_cd(search_tsv, websearch_to_tsquery(:query)): searchRank is the
\* rank of a row for a query its text matches.
Rank(row, query) == IF query \in row.searchTsv THEN row.searchRank ELSE 0

\* The ORDER BY of the search: rank DESC when args.query is set, then the
\* sort column in the sort order, NULLS LAST.  TRUE when the keys put row a
\* before row b; rows equal on every key are put in no order.
Precedes(a, b, table, query, field, order) ==
    LET ra == Rank(table[a], query)
        rb == Rank(table[b], query)
        va == Column(table[a], field)
        vb == Column(table[b], field)
    IN  IF query # "" /\ ra # rb THEN ra > rb
        ELSE IF va = vb THEN FALSE
        ELSE IF va = NULL THEN FALSE
        ELSE IF vb = NULL THEN TRUE
        ELSE IF order = "ASC" THEN va < vb ELSE va > vb

\* The orders in which the store can return the rows of a query with no
\* ORDER BY: any.
RowOrders(ids) ==
    {rows \in [1..Cardinality(ids) -> ids] :
        \A i, j \in 1..Cardinality(ids) : i < j => rows[i] # rows[j]}

\* The orders in which it can return them under the ORDER BY: every order
\* the keys allow.
OrderBy(ids, table, query, field, order) ==
    {rows \in RowOrders(ids) :
        \A i, j \in 1..Cardinality(ids) :
            i < j => ~Precedes(rows[j], rows[i], table, query, field, order)}

\* skip(from).take(size)
Page(rows, from, size) ==
    SubSeq(rows, from + 1, IF from + size < Len(rows) THEN from + size ELSE Len(rows))

\* The results the search can give: one for each order of the rows.
searchLibraryItems(args, userId, table, time) ==
    LET from == IF args.from = NULL THEN DefaultFrom ELSE args.from
        size == IF args.size = NULL THEN DefaultSize ELSE args.size
        sortOrder == IF args.sort.order = UNSET THEN "DESC" ELSE args.sort.order
        sortField == IF args.sort.by = UNSET THEN "saved_at" ELSE args.sort.by
        clauses == <<Clause("userIdEquals", "user_id", <<Bind("userId", "", userId)>>)>>
                   \o buildWhereClause(args, time)
        found == GetMany(clauses, table, TrxUser(userId, userId), time)
    IN  {[libraryItems |-> Page(rows, from, size), count |-> Cardinality(found)] :
            rows \in OrderBy(found, table, args.query, sortField, sortOrder)}

(***************************************************************************)
(* updateLibraryItem, restoreLibraryItem, createLibraryItem                *)
(***************************************************************************)
\* A patch (QueryDeepPartialEntity) is a function from the fields it names.
SetField(patch, key, value) ==
    [k \in DOMAIN patch \cup {key} |-> IF k = key THEN value ELSE patch[k]]

\* The switch with every state clearing the date of the other.
DeriveTimestampsClearing(libraryItem, time) ==
    IF "state" \notin DOMAIN libraryItem THEN libraryItem
    ELSE CASE libraryItem["state"] = Archived ->
                SetField(SetField(libraryItem, "archivedAt", time), "deletedAt", NULL)
           [] libraryItem["state"] = Deleted ->
                SetField(SetField(libraryItem, "deletedAt", time), "archivedAt", NULL)
           [] libraryItem["state"] \in {Processing, Succeeded} ->
                SetField(SetField(libraryItem, "archivedAt", NULL), "deletedAt", NULL)
           [] OTHER -> libraryItem

\* The switch without its last case.
DeriveTimestampsKeeping(libraryItem, time) ==
    IF "state" \notin DOMAIN libraryItem THEN libraryItem
    ELSE CASE libraryItem["state"] = Archived ->
                SetField(libraryItem, "archivedAt", time)
           [] libraryItem["state"] = Deleted ->
                SetField(libraryItem, "deletedAt", time)
           [] OTHER -> libraryItem

\* The switch on libraryItem.state: it writes into the patch itself.
DeriveTimestamps(libraryItem, time) ==
    IF "state" \notin DOMAIN libraryItem THEN libraryItem
    ELSE CASE libraryItem["state"] = Archived ->
                SetField(libraryItem, "archivedAt", time)
           [] libraryItem["state"] = Deleted ->
                SetField(libraryItem, "deletedAt", time)
           [] libraryItem["state"] \in {Processing, Succeeded} ->
                SetField(SetField(libraryItem, "archivedAt", NULL), "deletedAt", NULL)
           [] OTHER -> libraryItem

\* UPDATE ... SET: the fields the patch names take its values.
ApplyPatch(row, patch) ==
    [k \in DOMAIN row |-> IF k \in DOMAIN patch THEN patch[k] ELSE row[k]]

\* itemRepo.update(id, libraryItem) in a transaction of uid.
UpdateById(table, uid, id, patch) ==
    IF id \in VisibleIds(table, uid)
    THEN [table EXCEPT ![id] = ApplyPatch(@, patch)]
    ELSE table

\* The transaction with findOneBy in place of findOneByOrFail.
UpdateTrxUnchecked(table, id, libraryItem, userId, time) ==
    LET derived == DeriveTimestamps(libraryItem, time)
        uid == TrxUser(userId, userId)
        written == UpdateById(table, uid, id, derived)
    IN  [committed |-> TRUE, table |-> written,
         result |-> IF id \in VisibleIds(written, uid) THEN <<written[id]>> ELSE <<>>,
         libraryItem |-> derived]

\* The transaction of updateLibraryItem: the derived patch, the write and the
\* re-fetch; findOneByOrFail throws when no row is found, which aborts it.
UpdateTrx(table, id, libraryItem, userId, time) ==
    LET derived == DeriveTimestamps(libraryItem, time)
        uid == TrxUser(userId, userId)
        written == UpdateById(table, uid, id, derived)
    IN  IF id \in VisibleIds(written, uid)
        THEN [committed |-> TRUE, table |-> written, result |-> <<written[id]>>,
              libraryItem |-> derived]
        ELSE [committed |-> FALSE, table |-> table, result |-> <<>>,
              libraryItem |-> derived]

\* The patch restoreLibraryItem passes to updateLibraryItem.
RestorePatch(time) ==
    [state |-> Succeeded, savedAt |-> time, archivedAt |-> NULL, deletedAt |-> NULL]

\* A client whose promise rejects when the publish fails.
PublishRejecting(fails) ==
    [delivered |-> ~fails, settled |-> IF fails THEN "rejected" ELSE "resolved"]

\* The pubsub client: best-effort, a publish that fails is dropped by the
\* client and its promise resolves all the same.
Publish(fails) == [delivered |-> ~fails, settled |-> "resolved"]

\* await pubsub.entityUpdated(...) / entityCreated(...), then return the item
\* of the transaction: a rejected promise is thrown to the caller.
ReturnAfterNotify(trxResult, settled) ==
    IF settled = "rejected"
    THEN [status |-> "error", error |-> "notification", returned |-> <<>>]
    ELSE [status |-> "ok", error |-> "", returned |-> trxResult]

\* { ...libraryItem, id }
WithId(libraryItem, id) == SetField(libraryItem, "id", id)

UpdateCall(op, id, libraryItem, userId) ==
    /\ pc = "idle"
    /\ LET trx == UpdateTrx(items, id, libraryItem, userId, now)
       IN  /\ call' = [op |-> op, id |-> id, given |-> libraryItem,
                       libraryItem |-> trx.libraryItem, userId |-> userId,
                       event |-> "entityUpdated", trx |-> trx.result]
           /\ items' = trx.table
           /\ pc' = IF trx.committed THEN "notify" ELSE "idle"
           /\ outcome' = IF trx.committed
                         THEN [status |-> "pending", error |-> "", returned |-> <<>>]
                         ELSE [status |-> "error", error |-> "EntityNotFound",
                               returned |-> <<>>]
    /\ published' = <<>>
    /\ UNCHANGED <<entityLabels, now>>

UpdateLibraryItem(id, libraryItem, userId) ==
    UpdateCall("updateLibraryItem", id, libraryItem, userId)

RestoreLibraryItem(id, userId) ==
    UpdateCall("restoreLibraryItem", id, RestorePatch(now), userId)

\* save() of a new item in a transaction of userId: the row given, under an
\* id the store has not used, then the notification.
CreateLibraryItem(id, libraryItem, userId) ==
    /\ pc = "idle"
    /\ id \notin DOMAIN items
    /\ VisibleTo(userId, libraryItem)
    /\ items' = [i \in DOMAIN items \cup {id} |->
                    IF i = id THEN libraryItem ELSE items[i]]
    /\ call' = [op |-> "createLibraryItem", id |-> id, given |-> libraryItem,
                libraryItem |-> libraryItem, userId |-> userId,
                event |-> "entityCreated", trx |-> <<libraryItem>>]
    /\ pc' = "notify"
    /\ outcome' = [status |-> "pending", error |-> "", returned |-> <<>>]
    /\ published' = <<>>
    /\ UNCHANGED <<entityLabels, now>>

\* save() of several new items, libraryItems mapping the new ids to the
\* rows: no notification follows.
CreateLibraryItems(libraryItems, userId) ==
    /\ pc = "idle"
    /\ DOMAIN libraryItems \cap DOMAIN items = {}
    /\ \A id \in DOMAIN libraryItems : VisibleTo(userId, libraryItems[id])
    /\ items' = [i \in DOMAIN items \cup DOMAIN libraryItems |->
                    IF i \in DOMAIN items THEN items[i] ELSE libraryItems[i]]
    /\ call' = [op |-> "createLibraryItems", ids |-> DOMAIN libraryItems,
                userId |-> userId]
    /\ outcome' = [status |-> "ok", error |-> "", returned |-> <<>>]
    /\ published' = <<>>
    /\ UNCHANGED <<entityLabels, now, pc>>

\* The step after the commit: one notification, then the return.
Notify(fails) ==
    /\ pc = "notify"
    /\ published' = <<[event |-> call.event, type |-> "PAGE",
                       data |-> WithId(call.libraryItem, call.id),
                       userId |-> call.userId,
                       delivered |-> Publish(fails).delivered]>>
    /\ outcome' = ReturnAfterNotify(call.trx, Publish(fails).settled)
    /\ pc' = "idle"
    /\ UNCHANGED <<items, entityLabels, now, call>>

\* A DELETE in a transaction of userId: of the rows named, those the
\* transaction sees go, and their join rows with them.
DeleteRows(op, named, userId) ==
    /\ pc = "idle"
    /\ LET gone == named \cap VisibleIds(items, userId)
       IN  /\ items' = [i \in DOMAIN items \ gone |-> items[i]]
           /\ entityLabels' = {e \in entityLabels : e[2] \notin gone}
    /\ call' = [op |-> op, ids |-> named, userId |-> userId]
    /\ outcome' = [status |-> "ok", error |-> "", returned |-> <<>>]
    /\ published' = <<>>
    /\ UNCHANGED <<now, pc>>

\* delete(id)
DeleteLibraryItemById(id, userId) ==
    DeleteRows("deleteLibraryItemById", {id}, userId)

\* remove(items)
DeleteLibraryItems(ids, userId) ==
    DeleteRows("deleteLibraryItems", ids, userId)

\* delete({ originalUrl: url })
DeleteLibraryItemByUrl(url, userId) ==
    DeleteRows("deleteLibraryItemByUrl",
               {id \in DOMAIN items : items[id].originalUrl = url}, userId)

\* delete({ user: { id: userId } })
DeleteLibraryItemsByUserId(userId) ==
    DeleteRows("deleteLibraryItemsByUserId",
               {id \in DOMAIN items : items[id].userId = userId}, userId)

\* The clock.
Tick ==
    /\ pc = "idle"
    /\ now + DaysPerTick <= MaxTime
    /\ now' = now + DaysPerTick
    /\ UNCHANGED <<items, entityLabels, pc, call, outcome, published>>

(***************************************************************************)
(* updateLibraryItems                                                      *)
(***************************************************************************)
BulkActionType == {"Archive", "Delete", "AddLabels", "MarkAsRead"}

\* The values of the UPDATE, by action.
BulkValues(action, time) ==
    CASE action = "Archive" -> [archivedAt |-> time, state |-> Archived]
      [] action = "Delete" -> [deletedAt |-> time, state |-> Deleted]
      [] action = "MarkAsRead" ->
            [readAt |-> time, readingProgressTopPercent |-> FullPercent,
             readingProgressBottomPercent |-> FullPercent]
      [] OTHER -> <<>>

\* An entity as the query builder of the bulk action returns it: the query
\* joins no relation, so libraryItem.labels is not loaded.
LoadedLabels(id, joined, joinRows) ==
    [loaded |-> joined,
     ids |-> IF joined THEN {e[1] : e \in {r \in joinRows : r[2] = id}} ELSE {}]

BulkEntity(id, joinRows) == [id |-> id, labels |-> LoadedLabels(id, FALSE, joinRows)]

\* libraryItem.labels?.find((l) => l.id === entityLabel.labelId)
ExistingLabel(libraryItem, labelId) ==
    libraryItem.labels.loaded /\ labelId \in libraryItem.labels.ids

\* labels.map(...).filter(...) for one library item
LabelsToAddFor(libraryItem, labels) ==
    LET mapped == [i \in 1..Len(labels) |->
                      [labelId |-> labels[i], libraryItemId |-> libraryItem.id]]
        Missing(entityLabel) == ~ExistingLabel(libraryItem, entityLabel.labelId)
    IN  SelectSeq(mapped, Missing)

\* libraryItems.flatMap(...)
RECURSIVE LabelsToAdd(_, _)
LabelsToAdd(libraryItems, labels) ==
    IF libraryItems = <<>> THEN <<>>
    ELSE LabelsToAddFor(Head(libraryItems), labels)
         \o LabelsToAdd(Tail(libraryItems), labels)

PairOf(entityLabel) == <<entityLabel.labelId, entityLabel.libraryItemId>>

\* entity_labels holds a (labelId, libraryItemId) pair once: an insert of a
\* pair it holds, or of the same pair twice, violates the constraint.
ViolatesUnique(rows, joinRows) ==
    \/ \E i \in 1..Len(rows) : PairOf(rows[i]) \in joinRows
    \/ \E i, j \in 1..Len(rows) : i # j /\ PairOf(rows[i]) = PairOf(rows[j])

\* The rows the UPDATE of a bulk action writes.
BulkUpdate(table, found, values) ==
    [id \in DOMAIN table |->
        IF id \in found THEN ApplyPatch(table[id], values) ELSE table[id]]

BulkError(message, rows) ==
    [status |-> "error", error |-> message, returned |-> <<>>, saved |-> rows]

\* session is the user of the request: updateLibraryItems passes no user to
\* authTrx.
UpdateLibraryItems(action, args, labels, session) ==
    /\ pc = "idle"
    /\ call' = [op |-> "updateLibraryItems", action |-> action, args |-> args,
                labels |-> labels, session |-> session]
    /\ published' = <<>>
    /\ UNCHANGED <<now, pc>>
    /\ IF action \notin BulkActionType
       THEN /\ outcome' = BulkError("Invalid bulk action", <<>>)
            /\ UNCHANGED <<items, entityLabels>>
       ELSE LET clauses == buildWhereClause(args, now)
                found == GetMany(clauses, items, TrxUser(UNSET, session), now)
            IN  IF action = "AddLabels"
                THEN IF ~labels.defined
                     THEN /\ outcome' = BulkError("Labels are required for this action", <<>>)
                          /\ UNCHANGED <<items, entityLabels>>
                     ELSE \E rows \in RowOrders(found) :
                          LET libraryItems ==
                                  [i \in 1..Cardinality(found) |->
                                      BulkEntity(rows[i], entityLabels)]
                              labelsToAdd == LabelsToAdd(libraryItems, labels.ids)
                          IN  IF ViolatesUnique(labelsToAdd, entityLabels)
                              THEN /\ outcome' = BulkError("unique violation", labelsToAdd)
                                   /\ UNCHANGED <<items, entityLabels>>
                              ELSE /\ entityLabels' = entityLabels \cup
                                        {PairOf(labelsToAdd[i]) : i \in 1..Len(labelsToAdd)}
                                   /\ outcome' = [status |-> "ok", error |-> "",
                                                  returned |-> <<>>, saved |-> labelsToAdd]
                                   /\ UNCHANGED items
                ELSE /\ items' = BulkUpdate(items, found, BulkValues(action, now))
                     /\ outcome' = [status |-> "ok", error |-> "", returned |-> <<>>,
                                    saved |-> <<>>]
                     /\ UNCHANGED entityLabels

\* The search, as the caller sees it.
SearchLibraryItems(args, userId) ==
    /\ pc = "idle"
    /\ call' = [op |-> "searchLibraryItems", args |-> args, userId |-> userId]
    /\ \E result \in searchLibraryItems(args, userId, items, now) :
          outcome' = [status |-> "ok", error |-> "",
                      returned |-> result.libraryItems, count |-> result.count]
    /\ published' = <<>>
    /\ UNCHANGED <<items, entityLabels, now, pc>>

(***************************************************************************)
(* Inputs.                                                                 *)
(***************************************************************************)
Part(key, given, value) == IF given THEN key :> value ELSE <<>>

\* The patches of updateLibraryItem: any of state, archivedAt and deletedAt,
\* a date being null or a date before the call.
Patches ==
    {Part("state", s # UNSET, s) @@ Part("archivedAt", ha, a) @@ Part("deletedAt", hd, d) :
        s \in LibraryItemState \cup {UNSET},
        ha \in BOOLEAN, a \in {NULL, Epoch}, hd \in BOOLEAN, d \in {NULL, Epoch}}

\* The rows ingestion creates for a user: active, with no archive or delete
\* date.
NewRows(userId, time) ==
    {Item(userId, state, Plain, time, NULL, NULL, NULL, 0) :
        state \in {Processing, Succeeded}}

\* Several of them, under ids the store has not used.
NewItems(userId, time, used) ==
    UNION {[ids -> NewRows(userId, time)] : ids \in SUBSET (ItemIds \ used)}

\* The patches that change the state only.
StatePatches == {Part("state", TRUE, s) : s \in LibraryItemState}

\* The label argument of a bulk action: absent, or a list of label ids.
LabelInputs ==
    {[defined |-> FALSE, ids |-> <<>>], [defined |-> TRUE, ids |-> <<"A">>],
     [defined |-> TRUE, ids |-> <<"A", "B">>]}

NoLabels == [defined |-> FALSE, ids |-> <<>>]

ActionInputs == BulkActionType \cup {"Unknown"}

TrashArgs == [EmptyArgs EXCEPT !.inFilter = "TRASH"]

\* The filters of the item lifecycle: the default listing, the listing with
\* deleted and pending items, and the trash.
LifecycleArgs ==
    {EmptyArgs, TrashArgs,
     [EmptyArgs EXCEPT !.includeDeleted = TRUE, !.includePending = TRUE]}

\* The visibility filters: every scope, with and without pending and deleted
\* items.
ScopeArgs ==
    {[EmptyArgs EXCEPT !.inFilter = f, !.includePending = p, !.includeDeleted = d] :
        f \in {UNSET, "ALL", "INBOX", "ARCHIVE", "TRASH", "SUBSCRIPTION", "LIBRARY"},
        p \in BOOLEAN, d \in BOOLEAN}

Include(labels) == [type |-> "INCLUDE", labels |-> labels]
Exclude(labels) == [type |-> "EXCLUDE", labels |-> labels]
DateFilter(field, startDate, endDate) ==
    [field |-> field, startDate |-> startDate, endDate |-> endDate]
FieldFilter(field, value) == [field |-> field, value |-> value]

\* One filter of every other kind, alone and repeated.
FieldArgs ==
    {[EmptyArgs EXCEPT !.readFilter = r] : r \in {"ALL", "READ", "UNREAD"}}
    \cup {[EmptyArgs EXCEPT !.query = "rust"],
          [EmptyArgs EXCEPT !.typeFilter = "ARTICLE"],
          [EmptyArgs EXCEPT !.hasFilters = <<"HIGHLIGHTS">>],
          [EmptyArgs EXCEPT !.hasFilters = <<"LABELS", "HIGHLIGHTS">>],
          [EmptyArgs EXCEPT !.labelFilters = <<Include({"news"})>>],
          [EmptyArgs EXCEPT !.labelFilters = <<Include({"news"}), Include({"quote", "x"})>>],
          [EmptyArgs EXCEPT !.labelFilters = <<Include({"News"})>>],
          [EmptyArgs EXCEPT !.labelFilters = <<Exclude({"quote"}), Exclude({"x"})>>],
          [EmptyArgs EXCEPT !.labelFilters = <<Include({"news"}), Exclude({"x"})>>],
          [EmptyArgs EXCEPT !.dateFilters = <<DateFilter("saved_at", NULL, NULL)>>],
          [EmptyArgs EXCEPT !.dateFilters = <<DateFilter("read_at", Epoch, NULL)>>],
          [EmptyArgs EXCEPT !.dateFilters =
              <<DateFilter("saved_at", NULL, Epoch), DateFilter("deleted_at", NULL, NULL)>>],
          [EmptyArgs EXCEPT !.termFilters = <<FieldFilter("author", "Bob")>>],
          [EmptyArgs EXCEPT !.matchFilters = <<FieldFilter("title", "go")>>],
          [EmptyArgs EXCEPT !.ids = {1}],
          [EmptyArgs EXCEPT !.noFilters = <<[field |-> "label_names"]>>],
          [EmptyArgs EXCEPT !.recommendedBy = "*"],
          [EmptyArgs EXCEPT !.recommendedBy = "Bob"],
          [EmptyArgs EXCEPT !.from = 1, !.size = 1],
          [EmptyArgs EXCEPT !.sort = [by |-> "read_at", order |-> "ASC"]],
          [EmptyArgs EXCEPT !.dateFilters =
              <<DateFilter("saved_at", NULL, Epoch), DateFilter("saved_at", NULL, NULL)>>],
          [EmptyArgs EXCEPT !.termFilters =
              <<FieldFilter("author", "Bob"), FieldFilter("author", "Ann")>>],
          [EmptyArgs EXCEPT !.matchFilters =
              <<FieldFilter("title", "go"), FieldFilter("title", "rust")>>]}

SearchArgs == ScopeArgs \cup FieldArgs

\* The rows a store holds after mutations of this service: an active item
\* with no archive or delete date, an archived or deleted item with its
\* date, and one archived after its deletion or deleted after its archival.
\* A date is day 0 or the given time; the archived item was saved before the
\* active one and ranks above it.
StoredRows(time) ==
    {Item(u, Processing, Newsletter, 0, NULL, NULL, NULL, 0) : u \in Users}
    \cup {Item(u, Succeeded, Plain, time, NULL, NULL, NULL, 0) : u \in Users}
    \cup {Item(u, Archived, Essay, 0, 0, NULL, 0, FullPercent) : u \in Users}
    \cup {Item(u, Deleted, Newsletter, 0, NULL, time, NULL, 0) : u \in Users}
    \cup {Item(u, Archived, Plain, 0, time, 0, NULL, 0) : u \in Users}
    \cup {Item(u, Deleted, Plain, 0, 0, 0, NULL, 0) : u \in Users}

\* The stores of at most NumItems such rows.
Stores(time) == UNION {[ids -> StoredRows(time)] : ids \in SUBSET ItemIds}

\* The join rows before a bulk action.
JoinRows == {{}, {<<"A", 1>>}, {<<"A", 1>>, <<"B", 2>>}}

Idle ==
    /\ pc = "idle"
    /\ call = [op |-> "none"]
    /\ outcome = [status |-> "none", error |-> "", returned |-> <<>>]
    /\ published = <<>>

\* No call has been made yet.
Fresh == call.op = "none"

(***************************************************************************)
(* Spec: the service from an empty store, under the calls of the item      *)
(* lifecycle.                                                              *)
(***************************************************************************)
Init ==
    /\ items = <<>>
    /\ entityLabels = {}
    /\ now = 0
    /\ Idle

Next ==
    \/ \E id \in ItemIds, u \in Users : \E libraryItem \in NewRows(u, now) :
            CreateLibraryItem(id, libraryItem, u)
    \/ \E u \in Users : \E libraryItems \in NewItems(u, now, DOMAIN items) :
            CreateLibraryItems(libraryItems, u)
    \/ \E id \in ItemIds, patch \in StatePatches, u \in Users :
            UpdateLibraryItem(id, patch, u)
    \/ \E id \in ItemIds, u \in Users : RestoreLibraryItem(id, u)
    \/ \E fails \in BOOLEAN : Notify(fails)
    \/ \E id \in ItemIds, u \in Users : DeleteLibraryItemById(id, u)
    \/ \E ids \in SUBSET ItemIds, u \in Users : DeleteLibraryItems(ids, u)
    \/ \E url \in Urls, u \in Users : DeleteLibraryItemByUrl(url, u)
    \/ \E u \in Users : DeleteLibraryItemsByUserId(u)
    \/ \E action \in {"Archive", "Delete"}, args \in LifecycleArgs, u \in Users :
            UpdateLibraryItems(action, args, NoLabels, u)
    \/ \E u \in Users : SearchLibraryItems(TrashArgs, u)
    \/ Tick

Spec == Init /\ [][Next]_vars

(***************************************************************************)
(* SpecCall: one call of a mutation, with any input, on any store.         *)
(***************************************************************************)
InitCall ==
    /\ now = MaxTime
    /\ items \in Stores(now)
    /\ entityLabels = {}
    /\ Idle

NextCall ==
    \/ Fresh /\ \E id \in ItemIds, u \in Users : \E libraryItem \in NewRows(u, now) :
                    CreateLibraryItem(id, libraryItem, u)
    \/ Fresh /\ \E u \in Users : \E libraryItems \in NewItems(u, now, DOMAIN items) :
                    CreateLibraryItems(libraryItems, u)
    \/ Fresh /\ \E id \in ItemIds, patch \in Patches, u \in Users :
                    UpdateLibraryItem(id, patch, u)
    \/ Fresh /\ \E id \in ItemIds, u \in Users : RestoreLibraryItem(id, u)
    \/ \E fails \in BOOLEAN : Notify(fails)
    \/ Fresh /\ \E id \in ItemIds, u \in Users : DeleteLibraryItemById(id, u)
    \/ Fresh /\ \E ids \in SUBSET ItemIds, u \in Users : DeleteLibraryItems(ids, u)
    \/ Fresh /\ \E url \in Urls, u \in Users : DeleteLibraryItemByUrl(url, u)
    \/ Fresh /\ \E u \in Users : DeleteLibraryItemsByUserId(u)
    \/ Fresh /\ \E action \in {"Archive", "Delete", "MarkAsRead"},
                   args \in LifecycleArgs, u \in Users :
                    UpdateLibraryItems(action, args, NoLabels, u)

SpecCall == InitCall /\ [][NextCall]_vars

(***************************************************************************)
(* SpecBulk: one bulk action, with any filter, on any store.               *)
(***************************************************************************)
InitBulk ==
    /\ now = MaxTime
    /\ items \in Stores(now)
    /\ entityLabels \in JoinRows
    /\ Idle

NextBulk ==
    \/ Fresh /\ \E action \in ActionInputs \ {"AddLabels"}, args \in SearchArgs,
                   u \in Users :
                    UpdateLibraryItems(action, args, NoLabels, u)
    \/ Fresh /\ \E args \in LifecycleArgs, labels \in LabelInputs, u \in Users :
                    UpdateLibraryItems("AddLabels", args, labels, u)

SpecBulk == InitBulk /\ [][NextBulk]_vars

(***************************************************************************)
(* SpecSearch: one search, with any filter, on any store.                  *)
(***************************************************************************)
InitSearch ==
    /\ now = MaxTime
    /\ items \in Stores(now)
    /\ entityLabels = {}
    /\ Idle

NextSearch ==
    Fresh /\ \E args \in SearchArgs, u \in Users : SearchLibraryItems(args, u)

SpecSearch == InitSearch /\ [][NextSearch]_vars

(***************************************************************************)
(* Properties.                                                             *)
(***************************************************************************)
\* A step that is a call of updateLibraryItem, directly or from
\* restoreLibraryItem: its transaction.
UpdateStep ==
    /\ pc = "idle"
    /\ now' = now
    /\ call'.op \in {"updateLibraryItem", "restoreLibraryItem"}

\* A step that is a call of updateLibraryItems.
BulkStep ==
    /\ pc = "idle"
    /\ now' = now
    /\ call'.op = "updateLibraryItems"

IsSearch == call.op = "searchLibraryItems"

Returned == {outcome.returned[i] : i \in 1..Len(outcome.returned)}

\* C1: a search with no filter field set returns and counts exactly the
\* caller's items whose state is neither Processing nor Deleted.
C1_DefaultSearchHidesPendingAndDeleted ==
    (IsSearch /\ call.args = EmptyArgs) =>
        LET expected == {id \in DOMAIN items :
                            /\ items[id].userId = call.userId
                            /\ items[id].state \notin {Processing, Deleted}}
        IN  /\ Returned = expected
            /\ outcome.count = Cardinality(expected)

\* C2: a bulk action changes, and attaches labels to, items of one user
\* only: every row of another user is left as it was, whatever the filter.
C2_BulkActionScopedToUser ==
    [][BulkStep =>
        /\ DOMAIN items' = DOMAIN items
        /\ \A id \in DOMAIN items :
              items[id].userId # call'.session => items'[id] = items[id]
        /\ \A e \in entityLabels' \ entityLabels :
              e[2] \in DOMAIN items /\ items[e[2]].userId = call'.session]_vars

\* C2, reached: a mark-as-read has written a row of the session's user and
\* left a row of another user that satisfies the filter.
C2_Witness ==
    /\ call.op = "updateLibraryItems"
    /\ call.action = "MarkAsRead"
    /\ outcome.status = "ok"
    /\ \E a, b \in DOMAIN items :
          /\ items[a].userId = call.session
          /\ items[a].readAt = now
          /\ items[b].userId # call.session
          /\ items[b].readAt # now
          /\ WhereHolds(buildWhereClause(call.args, now), items[b], b, now)

\* C3: AddLabels inserts, for each matching item, join rows for exactly the
\* requested labels the item does not hold yet, and succeeds.
C3_AddLabelsInsertsMissingOnly ==
    [][(BulkStep /\ call'.action = "AddLabels" /\ call'.labels.defined) =>
        LET found == {id \in VisibleIds(items, call'.session) :
                         WhereHolds(buildWhereClause(call'.args, now), items[id], id, now)}
            requested == {call'.labels.ids[i] : i \in 1..Len(call'.labels.ids)}
            missing == {<<l, id>> : l \in requested, id \in found} \ entityLabels
        IN  /\ outcome'.status = "ok"
            /\ \A i \in 1..Len(outcome'.saved) :
                  PairOf(outcome'.saved[i]) \notin entityLabels
            /\ entityLabels' = entityLabels \cup missing]_vars

IsItemCall == call.op \in {"updateLibraryItem", "restoreLibraryItem", "createLibraryItem"}

\* C4: when the notification after a committed updateLibraryItem or
\* createLibraryItem fails, the call returns the persisted item without an
\* error and the store keeps the mutation.
C4_NotificationFailureNotEscalated ==
    (pc = "idle" /\ IsItemCall /\ published # <<>> /\ ~published[1].delivered) =>
        /\ outcome.status = "ok"
        /\ call.id \in DOMAIN items
        /\ outcome.returned = <<items[call.id]>>
        /\ \A k \in DOMAIN call.libraryItem : items[call.id][k] = call.libraryItem[k]

\* C4, reached: an update has committed, its notification has failed and the
\* call has returned.
C4_Witness ==
    /\ pc = "idle"
    /\ call.op = "updateLibraryItem"
    /\ "state" \in DOMAIN call.given
    /\ published # <<>>
    /\ ~published[1].delivered
    /\ outcome.status = "ok"

\* The dates of a row after a committed update, by the claim as first stated.
DatesAsClaimed(given, pre, post, time) ==
    /\ ("state" \in DOMAIN given /\ given["state"] = Archived) =>
          post.archivedAt = time /\ post.deletedAt = pre.deletedAt
    /\ ("state" \in DOMAIN given /\ given["state"] = Deleted) =>
          post.deletedAt = time /\ post.archivedAt = pre.archivedAt
    /\ ("state" \in DOMAIN given /\ given["state"] \in {Processing, Succeeded}) =>
          post.archivedAt = NULL /\ post.deletedAt = NULL
    /\ "state" \notin DOMAIN given =>
          \A k \in {"archivedAt", "deletedAt"} :
              post[k] = IF k \in DOMAIN given THEN given[k] ELSE pre[k]

\* The same, a date the state does not derive being the patch's when the
\* patch names it.
DatesAsDerived(given, pre, post, time) ==
    /\ ("state" \in DOMAIN given /\ given["state"] = Archived) =>
          /\ post.archivedAt = time
          /\ post.deletedAt = IF "deletedAt" \in DOMAIN given
                              THEN given["deletedAt"] ELSE pre.deletedAt
    /\ ("state" \in DOMAIN given /\ given["state"] = Deleted) =>
          /\ post.deletedAt = time
          /\ post.archivedAt = IF "archivedAt" \in DOMAIN given
                               THEN given["archivedAt"] ELSE pre.archivedAt
    /\ ("state" \in DOMAIN given /\ given["state"] \in {Processing, Succeeded}) =>
          post.archivedAt = NULL /\ post.deletedAt = NULL
    /\ "state" \notin DOMAIN given =>
          \A k \in {"archivedAt", "deletedAt"} :
              post[k] = IF k \in DOMAIN given THEN given[k] ELSE pre[k]

RestoredAsClaimed(post) ==
    post.state = Succeeded /\ post.archivedAt = NULL /\ post.deletedAt = NULL

\* C5 as stated: a committed update with state Archived stamps archivedAt
\* and leaves deletedAt as it was, with state Deleted stamps deletedAt and
\* leaves archivedAt as it was, with state Processing or Succeeded nulls
\* both, and without a state changes a date only when it names it; a restore
\* leaves Succeeded and both dates null.
C5_DatesAsStated ==
    [][(UpdateStep /\ pc' = "notify") =>
        /\ DatesAsClaimed(call'.given, items[call'.id], items'[call'.id], now)
        /\ call'.op = "restoreLibraryItem" => RestoredAsClaimed(items'[call'.id])]_vars

\* C5 as amended: the same, except that with state Archived deletedAt is
\* left as it was unless the patch names it, and then takes the patch's
\* value; likewise archivedAt with state Deleted.
C5_DatesDerivedFromState ==
    [][(UpdateStep /\ pc' = "notify") =>
        /\ DatesAsDerived(call'.given, items[call'.id], items'[call'.id], now)
        /\ call'.op = "restoreLibraryItem" => RestoredAsClaimed(items'[call'.id])]_vars

\* C5, reached: an update with state Archived that names deletedAt has
\* committed after the clock moved; the row has the new archive date and the
\* patch's delete date.
C5_Witness ==
    /\ pc = "notify"
    /\ call.op = "updateLibraryItem"
    /\ now > 0
    /\ "state" \in DOMAIN call.given
    /\ call.given["state"] = Archived
    /\ "deletedAt" \in DOMAIN call.given
    /\ items[call.id].archivedAt = now
    /\ items[call.id].deletedAt = call.given["deletedAt"]

\* C6 as stated: every item in state Processing or Succeeded has no archive
\* date and no delete date.
C6_ActiveItemsHaveNoDates ==
    \A id \in DOMAIN items :
        items[id].state \in {Processing, Succeeded} =>
            items[id].archivedAt = NULL /\ items[id].deletedAt = NULL

\* A call of updateLibraryItem whose patch names no state and sets a date.
SetsDateWithoutState(c) ==
    /\ c.op = "updateLibraryItem"
    /\ "state" \notin DOMAIN c.given
    /\ \E k \in {"archivedAt", "deletedAt"} :
          k \in DOMAIN c.given /\ c.given[k] # NULL

\* C6 as amended: an update, a restore or a bulk action keeps the active
\* items without dates, unless it is an update whose patch names no state and
\* sets archivedAt or deletedAt.
C6_CallsKeepActiveItemsWithoutDates ==
    [][(/\ C6_ActiveItemsHaveNoDates
        /\ UpdateStep \/ BulkStep
        /\ ~SetsDateWithoutState(call')) =>
        C6_ActiveItemsHaveNoDates']_vars

\* C6, reached: an update to Succeeded whose patch gives an archive date has
\* committed, and the row has none.
C6_Witness ==
    /\ pc = "notify"
    /\ call.op = "updateLibraryItem"
    /\ "state" \in DOMAIN call.given
    /\ call.given["state"] = Succeeded
    /\ "archivedAt" \in DOMAIN call.given
    /\ call.given["archivedAt"] # NULL
    /\ items[call.id].archivedAt = NULL
    /\ items[call.id].state = Succeeded

\* C7: a bulk Archive, Delete or MarkAsRead writes the action's values to
\* every row that satisfies the filters, and changes nothing else.
C7_BulkUpdateChangesMatchingRowsOnly ==
    [][(BulkStep /\ call'.action \in {"Archive", "Delete", "MarkAsRead"}) =>
        /\ DOMAIN items' = DOMAIN items
        /\ \A id \in DOMAIN items :
              items'[id] =
                  IF /\ VisibleTo(call'.session, items[id])
                     /\ AsAddedHolds(buildWhereClause(call'.args, now), items[id], id, now)
                  THEN ApplyPatch(items[id], BulkValues(call'.action, now))
                  ELSE items[id]
        /\ entityLabels' = entityLabels]_vars

\* C8: an update whose row is not there at the re-fetch fails, writes
\* nothing and notifies nobody; one that commits emits one notification,
\* the patch with the id, in the step after the commit and in no other.
C8_NotificationOnlyAfterCommit ==
    [][/\ UpdateStep =>
            IF call'.id \in VisibleIds(items, call'.userId)
            THEN pc' = "notify" /\ outcome'.status = "pending" /\ published' = <<>>
            ELSE /\ pc' = "idle"
                 /\ outcome'.status = "error"
                 /\ items' = items
                 /\ published' = <<>>
       /\ pc # "notify" => (published' = <<>> \/ published' = published)
       /\ pc = "notify" =>
            /\ items' = items
            /\ Len(published') = 1
            /\ published'[1].data["id"] = call.id
            /\ \A k \in DOMAIN call.given :
                  /\ k \in DOMAIN published'[1].data
                  /\ k \notin {"archivedAt", "deletedAt"} =>
                        published'[1].data[k] = call.given[k]]_vars

\* C8, reached: an update of an id with no row has failed, with no
\* notification.
C8_Witness ==
    /\ call.op = "updateLibraryItem"
    /\ call.id \notin DOMAIN items
    /\ outcome.status = "error"
    /\ outcome.error = "EntityNotFound"
    /\ published = <<>>
    /\ pc = "idle"

\* C9: no two clauses of one query bind a parameter name to different
\* values.
C9_ParametersUniquelyNamed ==
    IsSearch =>
        LET binds == Parameters(buildWhereClause(call.args, now))
        IN  \A i, j \in 1..Len(binds) :
                binds[i].name = binds[j].name => binds[i].value = binds[j].value

\* C10: every item a search of the trash returns is in state Deleted.
C10_TrashHoldsDeletedItemsOnly ==
    (IsSearch /\ call.args.inFilter = "TRASH" /\ ~call.args.includeDeleted) =>
        \A id \in Returned : items[id].state = Deleted

====
